---------------------------- MODULE Spec2Model ----------------------------
(***************************************************************************)
(* The prediction-market front-end of app/page.tsx (the Home component and *)
(* its trade modal ExpandedMarketView), the SignalVault contract it calls  *)
(* and the off-chain monitoring agent described by the README.             *)
(*                                                                         *)
(* JavaScript numbers are IEEE-754 doubles.  They are modelled as such: a  *)
(* double is a record [s, m, e] of value (-1)^s * m * 2^e whose mantissa m *)
(* is zero or has exactly 53 bits, and +, -, *, / round to nearest, ties   *)
(* to even.  Mantissas exceed TLC's integers, so they are kept as          *)
(* little-endian sequences of 15-bit limbs.  Subnormals, infinities and    *)
(* NaN lie outside every magnitude the model reaches.                      *)
(***************************************************************************)
EXTENDS Integers, Sequences, FiniteSets, TLC

-----------------------------------------------------------------------------
(* Natural numbers of any size: little-endian limbs, no leading zero limb. *)

LimbBase == 32768

RECURSIVE NNorm(_)
NNorm(a) ==
    IF a = <<>> THEN <<>>
    ELSE IF a[Len(a)] = 0 THEN NNorm(SubSeq(a, 1, Len(a) - 1))
    ELSE a

RECURSIVE NFromInt(_)
NFromInt(n) ==
    IF n = 0 THEN <<>>
    ELSE <<n % LimbBase>> \o NFromInt(n \div LimbBase)

RECURSIVE NToInt(_)
NToInt(a) ==
    IF a = <<>> THEN 0
    ELSE a[1] + LimbBase * NToInt(Tail(a))

RECURSIVE NAddC(_, _, _)
NAddC(a, b, c) ==
    IF a = <<>> /\ b = <<>> THEN (IF c = 0 THEN <<>> ELSE <<c>>)
    ELSE LET x == IF a = <<>> THEN 0 ELSE a[1]
             y == IF b = <<>> THEN 0 ELSE b[1]
             t == x + y + c
         IN  <<t % LimbBase>> \o
             NAddC(IF a = <<>> THEN <<>> ELSE Tail(a),
                   IF b = <<>> THEN <<>> ELSE Tail(b),
                   t \div LimbBase)

NAdd(a, b) == NAddC(a, b, 0)

RECURSIVE NSubB(_, _, _)
NSubB(a, b, c) ==
    IF a = <<>> THEN <<>>
    ELSE LET y == IF b = <<>> THEN 0 ELSE b[1]
             t == a[1] - y - c
         IN  <<IF t < 0 THEN t + LimbBase ELSE t>> \o
             NSubB(Tail(a), IF b = <<>> THEN <<>> ELSE Tail(b),
                   IF t < 0 THEN 1 ELSE 0)

\* a - b, for a >= b
NSub(a, b) == NNorm(NSubB(a, b, 0))

RECURSIVE NCmpFrom(_, _, _)
NCmpFrom(a, b, i) ==
    IF i = 0 THEN 0
    ELSE IF a[i] < b[i] THEN -1
    ELSE IF a[i] > b[i] THEN 1
    ELSE NCmpFrom(a, b, i - 1)

\* -1, 0 or 1 as a <, =, > b
NCmp(a, b) ==
    IF Len(a) < Len(b) THEN -1
    ELSE IF Len(a) > Len(b) THEN 1
    ELSE NCmpFrom(a, b, Len(a))

RECURSIVE NMulSmallC(_, _, _)
NMulSmallC(a, k, c) ==
    IF a = <<>> THEN (IF c = 0 THEN <<>> ELSE <<c>>)
    ELSE LET t == a[1] * k + c
         IN  <<t % LimbBase>> \o NMulSmallC(Tail(a), k, t \div LimbBase)

\* a * k, for 0 <= k < LimbBase
NMulSmall(a, k) == IF k = 0 THEN <<>> ELSE NMulSmallC(a, k, 0)

NShlLimbs(a, n) == IF a = <<>> THEN <<>> ELSE [i \in 1..n |-> 0] \o a

RECURSIVE NMul(_, _)
NMul(a, b) ==
    IF b = <<>> THEN <<>>
    ELSE NAdd(NMulSmall(a, b[1]), NShlLimbs(NMul(a, Tail(b)), 1))

RECURSIVE Pow2(_)
Pow2(k) == IF k = 0 THEN 1 ELSE 2 * Pow2(k - 1)

\* a * 2^k
NShl(a, k) == NShlLimbs(NMulSmall(a, Pow2(k % 15)), k \div 15)

RECURSIVE NDivSmallR(_, _, _, _)
NDivSmallR(a, d, i, r) ==
    IF i = 0 THEN <<>>
    ELSE LET t == r * LimbBase + a[i]
         IN  NDivSmallR(a, d, i - 1, t % d) \o <<t \div d>>

\* floor(a / d), for 0 < d < LimbBase
NDivSmall(a, d) == NNorm(NDivSmallR(a, d, Len(a), 0))

\* floor(a / 2^k)
NShr(a, k) ==
    IF k \div 15 >= Len(a) THEN <<>>
    ELSE NDivSmall(SubSeq(a, (k \div 15) + 1, Len(a)), Pow2(k % 15))

RECURSIVE IntBitLen(_)
IntBitLen(n) == IF n = 0 THEN 0 ELSE 1 + IntBitLen(n \div 2)

NBitLen(a) == IF a = <<>> THEN 0 ELSE 15 * (Len(a) - 1) + IntBitLen(a[Len(a)])

NIsOdd(a) == a # <<>> /\ a[1] % 2 = 1

\* Restoring long division, one quotient bit per step: the state is the
\* quotient so far and the remainder; n more bits are produced.
RECURSIVE NLongDiv(_, _, _, _)
NLongDiv(q, r, d, n) ==
    IF n = 0 THEN [q |-> q, r |-> r]
    ELSE LET r2 == NMulSmall(r, 2)
             q2 == NMulSmall(q, 2)
             ge == NCmp(r2, d) >= 0
             qn == IF ge THEN NAdd(q2, <<1>>) ELSE q2
             rn == IF ge THEN NSub(r2, d) ELSE r2
         IN  IF Len(qn) >= 0 /\ Len(rn) >= 0
             THEN NLongDiv(qn, rn, d, n - 1)
             ELSE [q |-> q, r |-> r]

-----------------------------------------------------------------------------
(* IEEE-754 binary64 arithmetic, round to nearest, ties to even.           *)

MantBits == 53

FZero == [s |-> 0, m |-> <<>>, e |-> 0]

\* (-1)^s * q * 2^e, q of MantBits bits or of one more after a carry
FRoundFit(s, q, e) ==
    IF NBitLen(q) > MantBits
    THEN [s |-> s, m |-> NShr(q, 1), e |-> e + 1]
    ELSE [s |-> s, m |-> q, e |-> e]

\* q is the number cut to MantBits bits; c is -1, 0 or 1 as what was cut off
\* is below, at or above one half of the last bit kept
FRoundTie(s, q, e, c) ==
    FRoundFit(s, IF c > 0 \/ (c = 0 /\ NIsOdd(q)) THEN NAdd(q, <<1>>) ELSE q, e)

\* n has d bits more than MantBits, and q is floor(n / 2^d)
FRoundCut(s, n, e, d, q) ==
    FRoundTie(s, q, e + d, NCmp(NSub(n, NShl(q, d)), NShl(<<1>>, d - 1)))

FRoundLen(s, n, e, len) ==
    IF len = 0 THEN FZero
    ELSE IF len <= MantBits
    THEN [s |-> s, m |-> NShl(n, MantBits - len), e |-> e - (MantBits - len)]
    ELSE FRoundCut(s, n, e, len - MantBits, NShr(n, len - MantBits))

\* The double nearest to (-1)^s * n * 2^e, n a natural number of any size.
FRound(s, n, e) == FRoundLen(s, n, e, NBitLen(n))

\* Number(n) of an integer literal or value n
FFromInt(n) ==
    FRound(IF n < 0 THEN 1 ELSE 0, NFromInt(IF n < 0 THEN -n ELSE n), 0)

FNeg(x) == IF x.m = <<>> THEN x ELSE [x EXCEPT !.s = 1 - x.s]

\* -1, 0, 1 as |x| <, =, > |y|
FCmpAbs(x, y) ==
    IF x.m = <<>> /\ y.m = <<>> THEN 0
    ELSE IF x.m = <<>> THEN -1
    ELSE IF y.m = <<>> THEN 1
    ELSE IF x.e < y.e THEN -1
    ELSE IF x.e > y.e THEN 1
    ELSE NCmp(x.m, y.m)

\* -1, 0, 1 as x <, =, > y
FCmp(x, y) ==
    IF x.s = 0 /\ y.s = 0 THEN FCmpAbs(x, y)
    ELSE IF x.s = 1 /\ y.s = 1 THEN FCmpAbs(y, x)
    ELSE IF x.s = 0 THEN 1
    ELSE -1

\* x + y, a and b being the mantissas of x and y at the exponent e0
FAddAligned(x, y, a, b, e0) ==
    FRound(IF x.s = y.s \/ NCmp(a, b) >= 0 THEN x.s ELSE y.s,
           IF x.s = y.s THEN NAdd(a, b)
           ELSE IF NCmp(a, b) >= 0 THEN NSub(a, b)
           ELSE NSub(b, a),
           e0)

FAddAt(x, y, e0) ==
    FAddAligned(x, y, NShl(x.m, x.e - e0), NShl(y.m, y.e - e0), e0)

FAdd(x, y) ==
    IF x.m = <<>> THEN y
    ELSE IF y.m = <<>> THEN x
    ELSE FAddAt(x, y, IF x.e < y.e THEN x.e ELSE y.e)

FSub(x, y) == FAdd(x, FNeg(y))

FMul(x, y) ==
    IF x.m = <<>> \/ y.m = <<>> THEN FZero
    ELSE FRound((x.s + y.s) % 2, NMul(x.m, y.m), x.e + y.e)

\* The number of trailing zero bits of a, a # 0
RECURSIVE IntTrailingZeros(_)
IntTrailingZeros(n) == IF n % 2 = 1 THEN 0 ELSE 1 + IntTrailingZeros(n \div 2)

RECURSIVE NTrailingZeros(_)
NTrailingZeros(a) ==
    IF a[1] = 0 THEN 15 + NTrailingZeros(Tail(a)) ELSE IntTrailingZeros(a[1])

\* The quotient bits qr.q with a sticky bit for the remainder qr.r
FDivSticky(qr, e) ==
    [n |-> NAdd(NMulSmall(qr.q, 2), IF qr.r = <<>> THEN <<>> ELSE <<1>>),
     e |-> e]

\* |x / y| for x, y # 0, by bitwise long division: 57 quotient bits and a
\* sticky bit for the remainder
FDivLong(x, y) ==
    FDivSticky(NLongDiv(IF NCmp(x.m, y.m) >= 0 THEN <<1>> ELSE <<>>,
                        IF NCmp(x.m, y.m) >= 0 THEN NSub(x.m, y.m) ELSE x.m,
                        y.m, 56),
               x.e - y.e - 57)

\* floor(n0 / d) and the remainder of that division
FDivShortBy(n0, d, q) == [q |-> q, r |-> NSub(n0, NMulSmall(q, d))]

\* |x / y| for x, y # 0 when y = d * 2^tz * 2^y.e with d below LimbBase:
\* the same quotient by short division, 30 fraction bits and a sticky bit
FDivShort(x, y, tz, d) ==
    FDivSticky(FDivShortBy(NShl(x.m, 30), d, NDivSmall(NShl(x.m, 30), d)),
               x.e - 30 - (y.e + tz) - 1)

FDivDigits(x, y, tz) ==
    IF MantBits - tz <= 15 THEN FDivShort(x, y, tz, NToInt(NShr(y.m, tz)))
    ELSE FDivLong(x, y)

FRoundDigits(s, digits) == FRound(s, digits.n, digits.e)

\* x / y for y # 0
FDiv(x, y) ==
    IF x.m = <<>> THEN FZero
    ELSE FRoundDigits((x.s + y.s) % 2, FDivDigits(x, y, NTrailingZeros(y.m)))

FFloorOf(x, q) ==
    IF x.s = 0 THEN NToInt(q)
    ELSE IF NShl(q, -x.e) = x.m THEN -NToInt(q)
    ELSE -(NToInt(q) + 1)

\* Math.floor(x) as an integer, for |x| < 2^31
FFloor(x) ==
    IF x.m = <<>> THEN 0
    ELSE IF x.e >= 0 THEN (IF x.s = 0 THEN 1 ELSE -1) * NToInt(NShl(x.m, x.e))
    ELSE FFloorOf(x, NShr(x.m, -x.e))

\* The number literals of the program, as doubles
F0 == FZero
F2 == FFromInt(2)
F100 == FFromInt(100)
FMillion == FFromInt(1000000)

\* Number(ethers.formatUnits(v, 6)): the double nearest to v / 10^6
FormatUnits6(v) == FDiv(FFromInt(v), FMillion)

-----------------------------------------------------------------------------
(* calculateAMMPrices(yesVolume, noVolume, initialLiquidity = 1000)        *)

InitialLiquidity == 1000

\* initialLiquidity / 2
HalfLiquidity == FDiv(FFromInt(InitialLiquidity), F2)

AMMPricesDoubled(yesShares, noShares, total) ==
    [yesPrice |-> FMul(FDiv(noShares, total), FFromInt(200)),
     noPrice  |-> FMul(FDiv(yesShares, total), FFromInt(200))]

AMMPricesOwnSide(yesShares, noShares, total) ==
    [yesPrice |-> FMul(FDiv(yesShares, total), F100),
     noPrice  |-> FMul(FDiv(noShares, total), F100)]

\* { yesPrice, noPrice } of the shares
AMMPricesOf(yesShares, noShares, total) ==
    [yesPrice |-> FMul(FDiv(noShares, total), F100),
     noPrice  |-> FMul(FDiv(yesShares, total), F100)]

AMMUnbalanced(yesShares, noShares) ==
    AMMPricesOf(yesShares, noShares, FAdd(FAdd(yesShares, noShares), FFromInt(1)))

\* total = yesShares + noShares
AMMPrices(yesShares, noShares) ==
    AMMPricesOf(yesShares, noShares, FAdd(yesShares, noShares))

calculateAMMPrices(yesVolume, noVolume) ==
    AMMPrices(FAdd(HalfLiquidity, yesVolume), FAdd(HalfLiquidity, noVolume))

-----------------------------------------------------------------------------
(* Mock data and small helpers                                             *)

None == <<>>
Some(x) == <<x>>

MARKETS == <<
    [id |-> 1, title |-> "Will SpaceX Starship reach orbit in 2025?", chance |-> 78],
    [id |-> 2, title |-> "Fed Interest Rate Decision: Cut in December?", chance |-> 42],
    [id |-> 3, title |-> "Bitcoin to break $100k before Q3?", chance |-> 65],
    [id |-> 4, title |-> "Apple to announce foldable iPhone this year?", chance |-> 12],
    [id |-> 5, title |-> "Who will win the 2026 World Cup?", chance |-> 18],
    [id |-> 6, title |-> "GPT-5 release date before June 2025?", chance |-> 88] >>

MarketIds == {MARKETS[i].id : i \in 1..Len(MARKETS)}

\* MARKETS.find(m => m.id === id), for an id of MARKETS
MarketById(id) == MARKETS[CHOOSE i \in 1..Len(MARKETS) : MARKETS[i].id = id]

\* MARKETS.find(m => m.title === title): <<market>>, or <<>> for undefined
FindMarket(title) ==
    LET hits == {i \in 1..Len(MARKETS) : MARKETS[i].title = title}
    IN  IF hits = {} THEN None
        ELSE Some(MARKETS[CHOOSE i \in hits : \A j \in hits : i <= j])

\* A market id some other client of the contract may use: not in MARKETS
UnlistedMarket == "Unlisted market"

\* Addresses are sequences of characters.  The contract (through ethers)
\* reports the checksummed form; a wallet may report either form.
AliceChecksum == <<"0", "x", "A", "1">>
AliceLower    == <<"0", "x", "a", "1">>
BobChecksum   == <<"0", "x", "B", "2">>

LowerChar(c) ==
    CASE c = "A" -> "a" [] c = "B" -> "b" [] c = "C" -> "c"
      [] c = "D" -> "d" [] c = "E" -> "e" [] c = "F" -> "f"
      [] OTHER -> c

UpperChar(c) ==
    CASE c = "a" -> "A" [] c = "b" -> "B" [] c = "c" -> "C"
      [] c = "d" -> "D" [] c = "e" -> "E" [] c = "f" -> "F"
      [] OTHER -> c

\* String.prototype.toLowerCase
toLowerCase(str) == [i \in 1..Len(str) |-> LowerChar(str[i])]

\* The account a wallet address names on chain (msg.sender, as ethers
\* reports it): the hex digits after "0x" in the checksummed form
ChainAddress(a) == [i \in 1..Len(a) |-> IF i <= 2 THEN a[i] ELSE UpperChar(a[i])]

Digits == {"0", "1", "2", "3", "4", "5", "6", "7", "8", "9"}

DigitValue(c) ==
    CASE c = "0" -> 0 [] c = "1" -> 1 [] c = "2" -> 2 [] c = "3" -> 3
      [] c = "4" -> 4 [] c = "5" -> 5 [] c = "6" -> 6 [] c = "7" -> 7
      [] c = "8" -> 8 [] c = "9" -> 9

RECURSIVE ParseDigits(_, _)
ParseDigits(str, acc) ==
    IF str = <<>> \/ str[1] \notin Digits THEN acc
    ELSE ParseDigits(Tail(str), 10 * acc + DigitValue(str[1]))

\* parseFloat(str) of the text of the amount input, digits only in this
\* model: <<n>>, or <<>> for NaN (no leading digit)
parseFloat(str) ==
    IF str = <<>> \/ str[1] \notin Digits THEN None
    ELSE Some(ParseDigits(str, 0))

TradeAmountOrOne(str) ==
    LET v == parseFloat(str)
    IN  IF v = None \/ v[1] = 0 THEN 1 ELSE v[1]

\* parseFloat(tradeAmount) || 10: NaN and 0 are falsy
TradeAmountOf(str) ==
    LET v == parseFloat(str)
    IN  IF v = None \/ v[1] = 0 THEN 10 ELSE v[1]

\* ethers.parseUnits(amount.toFixed(6), 6) of a whole amount: "n.000000"
\* read with six decimals
CollateralOf(amount) == amount * 1000000

\* What the calculations of the trade panel show
TradePanelOf(amount, price, shares) ==
    [amount          |-> amount,
     price           |-> price,
     shares          |-> shares,
     maxPayout       |-> shares,
     potentialProfit |-> FSub(shares, amount)]

\* shares = amount / price
TradePanelAt(amount, price) == TradePanelOf(amount, price, FDiv(amount, price))

\* The calculations of the trade panel: amount = parseFloat(tradeAmount) ||
\* 10, price = yesPrice / 100
TradePanel(text, yesPrice) ==
    TradePanelAt(FFromInt(TradeAmountOf(text)), FDiv(yesPrice, F100))

-----------------------------------------------------------------------------
(* Positions, PnL and market statistics                                    *)

\* The current price fetchPositions shows for an on-chain position: the
\* static chance of its market for its side, or its entry price when its
\* market is not in MARKETS
StaticPrice(pos) ==
    LET market == FindMarket(pos.marketId)
    IN  IF market # None
        THEN (IF pos.isLongYes THEN market[1].chance ELSE 100 - market[1].chance)
        ELSE pos.entryPrice

\* (currentPrice - entryPrice) / 100
PriceDiffPercent(currentPrice, entryPrice) ==
    FDiv(FSub(currentPrice, FFromInt(entryPrice)), F100)

\* ((currentPrice - entryPrice) / 100) * collateralUSDC * leverage, given
\* the first factor
LeveragedPnl(position, diff) ==
    FMul(FMul(diff, FormatUnits6(position.collateral)), FFromInt(position.leverage))

\* pnl of fetchPositions, given (currentPrice - entryPrice) / 100
UnrealizedOf(pos, diff) ==
    IF pos.leverage = 1 THEN diff ELSE LeveragedPnl(pos, diff)

\* The unrealized PnL of fetchPositions
UnrealizedPnl(pos, currentPrice) ==
    UnrealizedOf(pos, PriceDiffPercent(FFromInt(currentPrice), pos.entryPrice))

\* The element fetchPositions pushes for position i of the contract
LocalPosition(i, pos) ==
    [id           |-> i,
     marketId     |-> pos.marketId,
     trader       |-> pos.trader,
     isLongYes    |-> pos.isLongYes,
     entryPrice   |-> pos.entryPrice,
     collateral   |-> pos.collateral,
     leverage     |-> pos.leverage,
     isOpen       |-> pos.isOpen,
     currentPrice |-> StaticPrice(pos),
     pnl          |-> UnrealizedPnl(pos, StaticPrice(pos))]

OpenOfAnyone(pos, address) == pos.isOpen

\* The filter of fetchPositions: the position is the wallet's and is open
IsUserPosition(pos, address) ==
    toLowerCase(pos.trader) = toLowerCase(address) /\ pos.isOpen

\* The price handleClosePosition realizes a position at: stats is
\* <<marketStats[market.id]>>, or <<>> when that entry is undefined
RealizedPrice(position, stats) ==
    LET market == FindMarket(position.marketId)
    IN  IF market = None THEN FFromInt(position.entryPrice)
        ELSE IF stats # None
        THEN (IF position.isLongYes THEN stats[1].yesPrice ELSE stats[1].noPrice)
        ELSE FFromInt(IF position.isLongYes THEN market[1].chance
                      ELSE 100 - market[1].chance)

\* pnl of handleClosePosition, given (currentPrice - entryPrice) / 100
RealizedOf(position, priceDiffPercent) ==
    IF position.leverage = 1
    THEN FMul(FormatUnits6(position.collateral), priceDiffPercent)
    ELSE LeveragedPnl(position, priceDiffPercent)

\* The realized PnL of handleClosePosition
RealizedPnl(position, currentPrice) ==
    RealizedOf(position, PriceDiffPercent(currentPrice, position.entryPrice))

\* n / 2^k rounded to the nearest integer, the larger one of two
NRoundShr(n, k) == NToInt(NShr(NAdd(n, NShl(<<1>>, k - 1)), k))

\* x.toFixed(2) for x >= 0, as a number of cents: the integer n with n / 100
\* nearest to x, the larger one of two
ToFixed2(x) ==
    IF x.m = <<>> THEN 0
    ELSE IF x.e >= 0 THEN NToInt(NShl(NMulSmall(x.m, 100), x.e))
    ELSE NRoundShr(NMulSmall(x.m, 100), -x.e)

NotifyTypeInverted(pnl) == IF FCmp(pnl, F0) >= 0 THEN "error" ELSE "success"

\* pnl >= 0 ? 'success' : 'error'
NotifyType(pnl) == IF FCmp(pnl, F0) >= 0 THEN "success" ELSE "error"

\* The notification of a closed position: its message is "Position closed!
\* Realized PnL: " followed by +$ or -$ and Math.abs(pnl).toFixed(2)
ClosedNotification(pnl) ==
    [message |-> "Position closed! Realized PnL: ",
     sign    |-> IF FCmp(pnl, F0) >= 0 THEN "+$" ELSE "-$",
     cents   |-> ToFixed2([pnl EXCEPT !.s = 0]),
     type    |-> NotifyType(pnl)]

FailedNotification ==
    [message |-> "Failed to close position", sign |-> "", cents |-> 0,
     type |-> "error"]

\* The sum of the collateral, in USDC, of the open positions of a market on
\* one side, added in list order starting from acc
RECURSIVE SideVolume(_, _, _, _)
SideVolume(ps, title, side, acc) ==
    IF ps = <<>> THEN acc
    ELSE LET pos == ps[1]
         IN  SideVolume(Tail(ps), title, side,
                 IF pos.marketId = title /\ pos.isOpen /\ pos.isLongYes = side
                 THEN FAdd(acc, FormatUnits6(pos.collateral))
                 ELSE acc)

MarketStatsWith(market, yesVolume, noVolume, prices) ==
    [id          |-> market.id,
     yesVolume   |-> yesVolume,
     noVolume    |-> noVolume,
     yesPrice    |-> prices.yesPrice,
     noPrice     |-> prices.noPrice,
     totalVolume |-> FAdd(yesVolume, noVolume)]

\* stats[market.id] of the effect on [positions]
MarketStatsOf(market, yesVolume, noVolume) ==
    MarketStatsWith(market, yesVolume, noVolume,
                    calculateAMMPrices(yesVolume, noVolume))

\* The statistics the effect on [positions] computes
StatsOf(ps) ==
    [id \in MarketIds |->
        MarketStatsOf(MarketById(id),
                      SideVolume(ps, MarketById(id).title, TRUE, F0),
                      SideVolume(ps, MarketById(id).title, FALSE, F0))]

\* positions.filter(p => p.id !== positionId)
RECURSIVE WithoutId(_, _)
WithoutId(ps, positionId) ==
    IF ps = <<>> THEN <<>>
    ELSE IF ps[1].id # positionId THEN <<ps[1]>> \o WithoutId(Tail(ps), positionId)
    ELSE WithoutId(Tail(ps), positionId)

\* positions.find(p => p.id === positionId): <<position>> or <<>>
FindPosition(ps, positionId) ==
    LET hits == {i \in 1..Len(ps) : ps[i].id = positionId}
    IN  IF hits = {} THEN None
        ELSE Some(ps[CHOOSE i \in hits : \A j \in hits : i <= j])

SellTabOfAll(ps, market) == ps

\* positions.filter(p => p.marketId === market.title): the Sell tab's list
RECURSIVE SellTab(_, _)
SellTab(ps, market) ==
    IF ps = <<>> THEN <<>>
    ELSE IF ps[1].marketId = market.title
    THEN <<ps[1]>> \o SellTab(Tail(ps), market)
    ELSE SellTab(Tail(ps), market)

-----------------------------------------------------------------------------
(* Bounds of the model                                                     *)

\* Positions the contract holds at most
MaxPositions == 3
\* fetchPositions calls in flight at most
MaxFetches == 2
\* The markets of MARKETS whose modal the user opens: ids 1..MaxMarket
MaxMarket == 1
\* The texts typed in the amount input: empty, and whole amounts
TypedAmount == <<"5", "0", "0">>
AmountTexts == {<<>>, <<"1", "0">>, TypedAmount}
\* The YES probabilities the oracle reports
OraclePrices == {5, 50}

-----------------------------------------------------------------------------
VARIABLES
    \* SignalVault
    chain,              \* the positions, position id = index; nextPositionId = Len + 1
    settlements,        \* the settlePosition calls, each with what held when it was made
    \* the agent
    oracle,             \* market title -> the YES probability of the oracle feed
    agentCursor,        \* PositionOpened events handled so far
    bridged,            \* positions bridged and bought on Polygon (spot path)
    tracked,            \* positions tracked for liquidation (synthetic path)
    \* Home
    authenticated,      \* usePrivy().authenticated
    wallets,            \* useWallets().wallets: << >> or <<address>>
    leverage,
    positions,
    positionsWallet,    \* ghost: <<wallet.address>> of the fetch that set positions
    refreshPositions,
    closingPositionId,  \* << >> for null
    marketStats,
    notification,       \* << >> for null
    selectedMarket,     \* << >> for null
    \* ExpandedMarketView, while mounted
    isProcessing,
    txHash,             \* << >> for null
    txSuccess,
    tradeAmount,
    tradeMode,
    openedPositionId,   \* << >> for null
    lastOpened,         \* ghost: <<id>> of the position the modal's last trade opened
    \* asynchronous calls in flight
    fetches,            \* fetchPositions calls
    trade,              \* handleTrade
    closing,            \* handleClosePosition
    lastClose,          \* ghost: what the last confirmed handleClosePosition computed
    successClick,       \* ghost: the last click on the success panel's Close Position
    \* calculateAMMPrices on its own
    ammYes,             \* yesVolume, a number of USDC
    ammNo,              \* noVolume, a number of USDC
    ammOut,             \* <<the prices returned>>, or << >> before the call
    ammPrev,            \* <<the volumes and prices of the call before>>, or << >>
    \* the calculations of the trade panel on their own
    panelText,          \* the text of the amount input
    panelOut            \* <<what the panel shows>>, or << >> before it renders

contractVars == <<chain, settlements>>
agentVars == <<oracle, agentCursor, bridged, tracked>>
homeVars == <<authenticated, wallets, leverage, positions, positionsWallet,
              refreshPositions, closingPositionId, marketStats, notification,
              selectedMarket>>
modalVars == <<isProcessing, txHash, txSuccess, tradeAmount, tradeMode,
               openedPositionId, lastOpened>>
asyncVars == <<fetches, trade, closing, lastClose, successClick>>
ammVars == <<ammYes, ammNo, ammOut, ammPrev, panelText, panelOut>>

vars == <<contractVars, agentVars, homeVars, modalVars, asyncVars, ammVars>>

\* The titles positions are opened on
Titles == {MARKETS[i].title : i \in 1..Len(MARKETS)} \cup {UnlistedMarket}

IdleTrade ==
    [pc |-> "idle", fn |-> "", side |-> "YES", leverage |-> 1, collateral |-> 0,
     entryPrice |-> 0, marketId |-> "", wallet |-> <<>>, mounted |-> FALSE]

IdleClosing ==
    [pc |-> "idle", fn |-> "", id |-> 0, position |-> <<>>, stats |-> <<>>,
     wallets |-> <<>>, src |-> ""]

\* The positions the contract holds when the page loads, opened from other
\* clients: the user's leveraged one on a listed market, entered above the
\* market, and the user's spot one on a market the front-end does not list
DeployedPositions ==
    << [marketId |-> MARKETS[1].title, trader |-> AliceChecksum, isLongYes |-> TRUE,
        entryPrice |-> 60, collateral |-> 10000000, leverage |-> 2, isOpen |-> TRUE],
       [marketId |-> UnlistedMarket, trader |-> AliceChecksum, isLongYes |-> TRUE,
        entryPrice |-> 50, collateral |-> 10000000, leverage |-> 1, isOpen |-> TRUE] >>

InitContract ==
    /\ chain = DeployedPositions
    /\ settlements = <<>>

InitAgent ==
    /\ oracle = [title \in Titles |-> 50]
    /\ agentCursor = 0
    /\ bridged = {}
    /\ tracked = {}

\* Home after its first render and effects: no wallet, so fetchPositions has
\* set positions to [] and the statistics effect has run on it
InitHome ==
    /\ authenticated = FALSE
    /\ wallets = <<>>
    /\ leverage = 1
    /\ positions = <<>>
    /\ positionsWallet = None
    /\ refreshPositions = 0
    /\ closingPositionId = None
    /\ marketStats = StatsOf(<<>>)
    /\ notification = None
    /\ selectedMarket = None

\* The state of ExpandedMarketView when it mounts
InitModal ==
    /\ isProcessing = FALSE
    /\ txHash = None
    /\ txSuccess = FALSE
    /\ tradeAmount = <<"1", "0">>
    /\ tradeMode = "BUY"
    /\ openedPositionId = None
    /\ lastOpened = None

InitAsync ==
    /\ fetches = {}
    /\ trade = IdleTrade
    /\ closing = IdleClosing
    /\ lastClose = None
    /\ successClick = None

InitAMMIdle ==
    /\ ammYes = F0
    /\ ammNo = F0
    /\ ammOut = <<calculateAMMPrices(F0, F0)>>
    /\ ammPrev = <<>>

InitPanelIdle ==
    /\ panelText = <<>>
    /\ panelOut = <<>>

Init ==
    /\ InitContract /\ InitAgent /\ InitHome /\ InitModal /\ InitAsync
    /\ InitAMMIdle /\ InitPanelIdle

-----------------------------------------------------------------------------
(* SignalVault: the contract behind CONTRACT_ABI                           *)

\* openPosition(_marketId, _isLongYes, _entryPrice, _leverage) payable
ChainOpened(ch, sender, marketId, isLongYes, entryPrice, lev, value) ==
    Append(ch, [marketId   |-> marketId,
                trader     |-> sender,
                isLongYes  |-> isLongYes,
                entryPrice |-> entryPrice,
                collateral |-> value,
                leverage   |-> lev,
                isOpen     |-> TRUE])

\* closePosition(positionId) succeeds for the trader of an open position
CanClose(ch, positionId, sender) ==
    /\ positionId \in 1..Len(ch)
    /\ ch[positionId].isOpen
    /\ ch[positionId].trader = sender

\* closePosition(positionId) and settlePosition(positionId) close it
ChainClosed(ch, positionId) == [ch EXCEPT ![positionId].isOpen = FALSE]

-----------------------------------------------------------------------------
(* fetchPositions                                                          *)

\* An entry computed from the volumes of the entry there is, is that entry
EffectEntry(current, market, yesVolume, noVolume) ==
    IF current.yesVolume = yesVolume /\ current.noVolume = noVolume
    THEN current
    ELSE MarketStatsOf(market, yesVolume, noVolume)

\* The effect on [positions] after setPositions(ps): setMarketStats(stats)
EffectStats(ps) ==
    [id \in MarketIds |->
        EffectEntry(marketStats[id], MarketById(id),
                    SideVolume(ps, MarketById(id).title, TRUE, F0),
                    SideVolume(ps, MarketById(id).title, FALSE, F0))]

SetPositions(ps) ==
    /\ positions' = ps
    /\ marketStats' = EffectStats(ps)

NewFetch(address) ==
    [pc |-> "nextId", wallet |-> address, nextId |-> 0, i |-> 0, acc |-> <<>>]

\* fetchPositions() of a render whose wallets are ws, up to its first await:
\* with no wallet it sets positions to [] at once
FetchPositionsCalled(ws) ==
    IF ws = <<>>
    THEN /\ SetPositions(<<>>)
         /\ positionsWallet' = None
         /\ fetches' = fetches
    ELSE /\ Cardinality(fetches \cup {NewFetch(ws[1])}) <= MaxFetches
         /\ fetches' = fetches \cup {NewFetch(ws[1])}
         /\ UNCHANGED <<positions, marketStats, positionsWallet>>

\* await contract.nextPositionId(); an empty loop ends the call at once
FetchNextId(f) ==
    /\ f.pc = "nextId"
    /\ LET nextId == Len(chain) + 1
       IN  IF 1 < nextId
           THEN /\ fetches' = (fetches \ {f}) \cup
                        {[f EXCEPT !.pc = "loop", !.nextId = nextId, !.i = 1]}
                /\ UNCHANGED <<positions, marketStats, positionsWallet>>
           ELSE /\ fetches' = fetches \ {f}
                /\ SetPositions(<<>>)
                /\ positionsWallet' = Some(f.wallet)
    /\ UNCHANGED <<contractVars, agentVars, authenticated, wallets, leverage,
                   refreshPositions, closingPositionId, notification,
                   selectedMarket, modalVars, trade, closing, lastClose,
                   successClick, ammVars>>

\* The provider or nextPositionId() rejects: the outer catch logs it
FetchFailed(f) ==
    /\ f.pc = "nextId"
    /\ fetches' = fetches \ {f}
    /\ UNCHANGED <<contractVars, agentVars, homeVars, modalVars, trade, closing,
                   lastClose, successClick, ammVars>>

\* One turn of the loop: await contract.getPosition(i), filter, push; after
\* the last turn, setPositions(userPositions)
FetchGetPosition(f) ==
    /\ f.pc = "loop"
    /\ LET pos == chain[f.i]
           acc == IF IsUserPosition(pos, f.wallet)
                  THEN Append(f.acc, LocalPosition(f.i, pos))
                  ELSE f.acc
       IN  IF f.i + 1 < f.nextId
           THEN /\ fetches' = (fetches \ {f}) \cup
                        {[f EXCEPT !.i = f.i + 1, !.acc = acc]}
                /\ UNCHANGED <<positions, marketStats, positionsWallet>>
           ELSE /\ fetches' = fetches \ {f}
                /\ SetPositions(acc)
                /\ positionsWallet' = Some(f.wallet)
    /\ UNCHANGED <<contractVars, agentVars, authenticated, wallets, leverage,
                   refreshPositions, closingPositionId, notification,
                   selectedMarket, modalVars, trade, closing, lastClose,
                   successClick, ammVars>>

-----------------------------------------------------------------------------
(* Privy: the session and its wallets                                      *)

\* The addresses the user's wallet may report
WalletAddresses == {AliceChecksum, AliceLower}

\* login() completes
Login ==
    /\ ~authenticated
    /\ authenticated' = TRUE
    /\ UNCHANGED <<contractVars, agentVars, wallets, leverage, positions,
                   positionsWallet, refreshPositions, closingPositionId,
                   marketStats, notification, selectedMarket, modalVars,
                   asyncVars, ammVars>>

\* useWallets() reports the user's wallet: the effect on [wallets] fetches
WalletConnected(address) ==
    /\ authenticated
    /\ wallets = <<>>
    /\ wallets' = <<address>>
    /\ FetchPositionsCalled(wallets')
    /\ UNCHANGED <<contractVars, agentVars, authenticated, leverage,
                   refreshPositions, closingPositionId, notification,
                   selectedMarket, modalVars, trade, closing, lastClose,
                   successClick, ammVars>>

\* The session ends: no wallet is left, and the effect on [wallets] runs
SessionEnded ==
    /\ authenticated
    /\ authenticated' = FALSE
    /\ wallets' = <<>>
    /\ IF wallets # <<>>
       THEN FetchPositionsCalled(wallets')
       ELSE UNCHANGED <<positions, marketStats, positionsWallet, fetches>>
    /\ UNCHANGED <<contractVars, agentVars, leverage, refreshPositions,
                   closingPositionId, notification, selectedMarket, modalVars,
                   trade, closing, lastClose, successClick, ammVars>>

-----------------------------------------------------------------------------
(* Home and ExpandedMarketView: the controls                               *)

\* ExpandedMarketView unmounts: its state is gone (kept here at its initial
\* values), and a handleTrade still running sets state of a dead component
ModalUnmounted ==
    /\ isProcessing' = FALSE
    /\ txHash' = None
    /\ txSuccess' = FALSE
    /\ tradeAmount' = <<"1", "0">>
    /\ tradeMode' = "BUY"
    /\ openedPositionId' = None
    /\ lastOpened' = None

TradeOrphaned == IF trade.pc = "idle" THEN trade ELSE [trade EXCEPT !.mounted = FALSE]

\* handleMarketClick(market.id) on a card of the grid
OpenMarket(id) ==
    /\ selectedMarket = None
    /\ selectedMarket' = Some(id)
    /\ UNCHANGED <<contractVars, agentVars, authenticated, wallets, leverage,
                   positions, positionsWallet, refreshPositions,
                   closingPositionId, marketStats, notification, modalVars,
                   asyncVars, ammVars>>

\* closeMarket: the X button, the backdrop, or Done on the success panel
CloseMarket ==
    /\ selectedMarket # None
    /\ selectedMarket' = None
    /\ ModalUnmounted
    /\ trade' = TradeOrphaned
    /\ UNCHANGED <<contractVars, agentVars, authenticated, wallets, leverage,
                   positions, positionsWallet, refreshPositions,
                   closingPositionId, marketStats, notification, fetches,
                   closing, lastClose, successClick, ammVars>>

SetLeverage(val) ==
    /\ leverage' = val
    /\ UNCHANGED <<contractVars, agentVars, authenticated, wallets, positions,
                   positionsWallet, refreshPositions, closingPositionId,
                   marketStats, notification, selectedMarket, modalVars,
                   asyncVars, ammVars>>

\* The Spot (1x) button
ClickSpot ==
    /\ selectedMarket # None /\ tradeMode = "BUY"
    /\ leverage # 1
    /\ SetLeverage(1)

\* The Pro Leverage button
ClickProLeverage ==
    /\ selectedMarket # None /\ tradeMode = "BUY"
    /\ leverage # 2
    /\ SetLeverage(2)

\* <input type="range" min="2" max="5" step="1">
SliderMin == 2
SliderMax == 5

DigitChar(n) ==
    CASE n = 0 -> "0" [] n = 1 -> "1" [] n = 2 -> "2" [] n = 3 -> "3"
      [] n = 4 -> "4" [] n = 5 -> "5" [] n = 6 -> "6" [] n = 7 -> "7"
      [] n = 8 -> "8" [] n = 9 -> "9"

SliderWideValues == {<<DigitChar(n)>> : n \in SliderMin..(SliderMax + 1)}

\* The values the range input reports, as text
SliderValues == {<<DigitChar(n)>> : n \in SliderMin..SliderMax}

\* parseInt(str) of the text of a whole number
parseInt(str) == ParseDigits(str, 0)

\* The multiplier slider, shown while leverage > 1
MoveSlider(value) ==
    /\ selectedMarket # None /\ tradeMode = "BUY"
    /\ leverage > 1
    /\ parseInt(value) # leverage
    /\ SetLeverage(parseInt(value))

\* The amount input
TypeAmount(text) ==
    /\ selectedMarket # None /\ tradeMode = "BUY"
    /\ text # tradeAmount
    /\ tradeAmount' = text
    /\ UNCHANGED <<contractVars, agentVars, homeVars, isProcessing, txHash,
                   txSuccess, tradeMode, openedPositionId, lastOpened,
                   asyncVars, ammVars>>

\* The Buy and Sell tabs
SetTradeMode(mode) ==
    /\ selectedMarket # None
    /\ mode # tradeMode
    /\ tradeMode' = mode
    /\ UNCHANGED <<contractVars, agentVars, homeVars, isProcessing, txHash,
                   txSuccess, tradeAmount, openedPositionId, lastOpened,
                   asyncVars, ammVars>>

\* The timer of showNotification fires
NotificationTimeout ==
    /\ notification # None
    /\ notification' = None
    /\ UNCHANGED <<contractVars, agentVars, authenticated, wallets, leverage,
                   positions, positionsWallet, refreshPositions,
                   closingPositionId, marketStats, selectedMarket, modalVars,
                   asyncVars, ammVars>>

-----------------------------------------------------------------------------
(* handleTrade                                                             *)

\* marketStats[market.id], or << >> when it is undefined
StatsEntry(ms, id) == IF id \in DOMAIN ms THEN Some(ms[id]) ELSE None

\* yesPrice and noPrice of ExpandedMarketView
ModalYesPrice(stats, market) ==
    IF stats # None THEN stats[1].yesPrice ELSE FFromInt(market.chance)

ModalNoPrice(stats, market) ==
    IF stats # None THEN stats[1].noPrice ELSE FFromInt(100 - market.chance)

\* Math.floor(side === 'YES' ? yesPrice : noPrice)
EntryPriceOf(side, stats, market) ==
    FFloor(IF side = "YES" THEN ModalYesPrice(stats, market)
           ELSE ModalNoPrice(stats, market))

Sides == {"YES", "NO"}

\* The Buy Yes and Buy No buttons.  Unauthenticated, handleTrade calls
\* login() and returns.  With a wallet it runs up to the await of tx.wait():
\* contract.openPosition(market.title, side === 'YES', entryPrice, leverage,
\* {value: collateral}) is sent.  (With no wallet it alerts; when the
\* provider or the wallet rejects, its catch alerts: neither changes state.)
HandleTrade(side) ==
    /\ selectedMarket # None /\ tradeMode = "BUY"
    /\ ~(txSuccess /\ txHash # None)
    /\ ~isProcessing
    /\ LET market == MarketById(selectedMarket[1])
           stats  == StatsEntry(marketStats, market.id)
       IN  IF ~authenticated
           THEN /\ authenticated' = TRUE
                /\ UNCHANGED <<isProcessing, txHash, trade>>
           ELSE /\ wallets # <<>>
                /\ trade.pc = "idle"
                /\ isProcessing' = TRUE
                /\ txHash' = Some("tx")
                /\ trade' = [pc         |-> "sent",
                             fn         |-> "openPosition",
                             side       |-> side,
                             leverage   |-> leverage,
                             collateral |-> CollateralOf(TradeAmountOf(tradeAmount)),
                             entryPrice |-> EntryPriceOf(side, stats, market),
                             marketId   |-> market.title,
                             wallet     |-> wallets[1],
                             mounted    |-> TRUE]
                /\ UNCHANGED authenticated
    /\ UNCHANGED <<chain, settlements, agentVars, wallets, leverage, positions,
                   positionsWallet, refreshPositions, closingPositionId,
                   marketStats, notification, selectedMarket, txSuccess,
                   tradeAmount, tradeMode, openedPositionId, lastOpened,
                   fetches, closing, lastClose, successClick, ammVars>>

\* tx.wait() resolves: the position is on chain; setTxSuccess(true), the
\* timer is set, and onPositionOpened() bumps refreshPositions, whose
\* effect calls fetchPositions
TradeMined ==
    /\ trade.pc = "sent"
    /\ Len(chain) < MaxPositions
    /\ chain' = ChainOpened(chain, ChainAddress(trade.wallet), trade.marketId,
                            trade.side = "YES", trade.entryPrice,
                            trade.leverage, trade.collateral)
    /\ IF trade.mounted
       THEN /\ txSuccess' = TRUE
            /\ isProcessing' = FALSE
            /\ lastOpened' = Some(Len(chain) + 1)
       ELSE UNCHANGED <<txSuccess, isProcessing, lastOpened>>
    /\ trade' = [trade EXCEPT !.pc = "timer"]
    /\ refreshPositions' = refreshPositions + 1
    /\ FetchPositionsCalled(wallets)
    /\ UNCHANGED <<settlements, agentVars, authenticated, wallets,
                   leverage, closingPositionId, notification, selectedMarket,
                   txHash, tradeAmount, tradeMode, openedPositionId, closing,
                   lastClose, successClick, ammVars>>

\* tx.wait() rejects: the catch alerts and clears the transaction
TradeReverted ==
    /\ trade.pc = "sent"
    /\ IF trade.mounted
       THEN /\ txHash' = None
            /\ txSuccess' = FALSE
            /\ isProcessing' = FALSE
       ELSE UNCHANGED <<txHash, txSuccess, isProcessing>>
    /\ trade' = IdleTrade
    /\ UNCHANGED <<contractVars, agentVars, homeVars, tradeAmount, tradeMode,
                   openedPositionId, lastOpened, fetches, closing, lastClose,
                   successClick, ammVars>>

\* The timer of handleTrade, a second later:
\* setOpenedPositionId(Number(await contract.nextPositionId()) - 1)
TradeTimer ==
    /\ trade.pc = "timer"
    /\ IF trade.mounted
       THEN openedPositionId' = Some(Len(chain))
       ELSE UNCHANGED openedPositionId
    /\ trade' = IdleTrade
    /\ UNCHANGED <<contractVars, agentVars, homeVars, isProcessing, txHash,
                   txSuccess, tradeAmount, tradeMode, lastOpened, fetches,
                   closing, lastClose, successClick, ammVars>>

-----------------------------------------------------------------------------
(* handleClosePosition                                                     *)

\* handleClosePosition(positionId) returns before its try block: there is
\* no wallet, or positions has no position of that id
ReturnsEarly(positionId) ==
    wallets = <<>> \/ FindPosition(positions, positionId) = None

SettleInsteadOfClose == "settlePosition"

\* The contract function handleClosePosition calls
ClosePositionCall == "closePosition"

\* handleClosePosition(positionId) up to the await of tx.wait(): the call is
\* sent.  position, marketStats and wallets are those of the render whose
\* handler runs
CloseSent(positionId, src) ==
    /\ ~ReturnsEarly(positionId)
    /\ closing.pc = "idle"
    /\ closingPositionId' = Some(positionId)
    /\ LET position == FindPosition(positions, positionId)[1]
           market   == FindMarket(position.marketId)
       IN  closing' = [pc       |-> "sent",
                       fn       |-> ClosePositionCall,
                       id       |-> positionId,
                       position |-> position,
                       stats    |-> IF market = None THEN None
                                    ELSE StatsEntry(marketStats, market[1].id),
                       wallets  |-> wallets,
                       src      |-> src]

\* handleClosePosition(positionId) throws before the call is sent (the wallet
\* or the provider rejects): the catch notifies, the finally clears
CloseThrew(positionId) ==
    /\ ~ReturnsEarly(positionId)
    /\ notification' = Some(FailedNotification)
    /\ closingPositionId' = None

\* The Close button of a card of the positions panel and the Sell button of
\* a row of the Sell tab
ClosePositionClicked(positionId, src) ==
    /\ closingPositionId # Some(positionId)
    /\ \/ CloseSent(positionId, src) /\ UNCHANGED notification
       \/ CloseThrew(positionId) /\ UNCHANGED closing
    /\ UNCHANGED <<chain, settlements, agentVars, authenticated, wallets,
                   leverage, positions, positionsWallet, refreshPositions,
                   marketStats, selectedMarket, modalVars, fetches, trade,
                   lastClose, successClick, ammVars>>

\* The positions panel shows while authenticated, under the modal's overlay
PanelClose(positionId) ==
    /\ authenticated /\ selectedMarket = None
    /\ FindPosition(positions, positionId) # None
    /\ ClosePositionClicked(positionId, "panel")

SellClose(positionId) ==
    /\ selectedMarket # None /\ tradeMode = "SELL"
    /\ FindPosition(SellTab(positions, MarketById(selectedMarket[1])),
                    positionId) # None
    /\ ClosePositionClicked(positionId, "sell")

\* Close Position on the success panel: setTxSuccess(false); setTxHash(null);
\* await handleClosePosition(openedPositionId); setOpenedPositionId(null);
\* onClose().  What follows the await runs at once when handleClosePosition
\* returns early or throws
SuccessClose ==
    /\ selectedMarket # None /\ tradeMode = "BUY"
    /\ txSuccess /\ txHash # None
    /\ openedPositionId # None
    /\ closingPositionId # openedPositionId
    /\ LET positionId == openedPositionId[1]
           click(early, sent) ==
               Some([positionId    |-> positionId,
                     opened        |-> lastOpened,
                     returnedEarly |-> early,
                     sent          |-> sent])
       IN  \/ /\ ReturnsEarly(positionId)
              /\ successClick' = click(TRUE, FALSE)
              /\ selectedMarket' = None
              /\ ModalUnmounted
              /\ trade' = TradeOrphaned
              /\ UNCHANGED <<closing, closingPositionId, notification>>
           \/ /\ CloseSent(positionId, "success")
              /\ successClick' = click(FALSE, TRUE)
              /\ txSuccess' = FALSE
              /\ txHash' = None
              /\ UNCHANGED <<selectedMarket, isProcessing, tradeAmount,
                             tradeMode, openedPositionId, lastOpened, trade,
                             notification>>
           \/ /\ CloseThrew(positionId)
              /\ successClick' = click(FALSE, FALSE)
              /\ selectedMarket' = None
              /\ ModalUnmounted
              /\ trade' = TradeOrphaned
              /\ UNCHANGED closing
    /\ UNCHANGED <<chain, settlements, agentVars, authenticated, wallets,
                   leverage, positions, positionsWallet, refreshPositions,
                   marketStats, fetches, lastClose, ammVars>>

\* What the success panel's handler does once handleClosePosition is over
AfterClose(src) ==
    IF src = "success"
    THEN /\ selectedMarket' = None
         /\ ModalUnmounted
         /\ trade' = TradeOrphaned
    ELSE UNCHANGED <<selectedMarket, modalVars, trade>>

\* showNotification(message, type) of a closed position
CloseNotified(pnl) ==
    /\ notification' = Some(ClosedNotification(pnl))
    /\ lastClose' = Some([position |-> closing.position,
                          stats    |-> closing.stats,
                          pnl      |-> pnl])

\* tx.wait() resolves: the position is closed on chain; the realized PnL is
\* notified, the position is filtered out of positions, and fetchPositions
\* of the handler's render is called
CloseMined ==
    /\ closing.pc = "sent"
    /\ CanClose(chain, closing.id, ChainAddress(closing.wallets[1]))
    /\ chain' = ChainClosed(chain, closing.id)
    /\ CloseNotified(RealizedPnl(closing.position,
                                 RealizedPrice(closing.position, closing.stats)))
    /\ SetPositions(WithoutId(positions, closing.id))
    /\ Cardinality(fetches \cup {NewFetch(closing.wallets[1])}) <= MaxFetches
    /\ fetches' = fetches \cup {NewFetch(closing.wallets[1])}
    /\ closingPositionId' = None
    /\ closing' = IdleClosing
    /\ AfterClose(closing.src)
    /\ UNCHANGED <<settlements, agentVars, authenticated, wallets,
                   leverage, positionsWallet, refreshPositions, successClick,
                   ammVars>>

\* tx.wait() rejects: the catch notifies, the finally clears
CloseReverted ==
    /\ closing.pc = "sent"
    /\ notification' = Some(FailedNotification)
    /\ closingPositionId' = None
    /\ closing' = IdleClosing
    /\ AfterClose(closing.src)
    /\ UNCHANGED <<contractVars, agentVars, authenticated, wallets, leverage,
                   positions, positionsWallet, refreshPositions, marketStats,
                   fetches, lastClose, successClick, ammVars>>

-----------------------------------------------------------------------------
(* The agent: router and liquidation engine, as documented                 *)

RouteSwapped(lev) == IF lev = 1 THEN "synthetic" ELSE "bridge"

\* The router: leverage 1 goes to the bridge, leverage above 1 stays
\* synthetic
RouteOf(lev) == IF lev = 1 THEN "bridge" ELSE "synthetic"

\* The agent handles the next PositionOpened event
AgentHandleEvent ==
    /\ agentCursor < Len(chain)
    /\ agentCursor' = agentCursor + 1
    /\ IF RouteOf(chain[agentCursor + 1].leverage) = "bridge"
       THEN /\ bridged' = bridged \cup {agentCursor + 1}
            /\ UNCHANGED tracked
       ELSE /\ tracked' = tracked \cup {agentCursor + 1}
            /\ UNCHANGED bridged
    /\ UNCHANGED <<contractVars, oracle, homeVars, modalVars, asyncVars, ammVars>>

\* The price of a position's side at the oracle's YES probability
OracleSidePrice(pos) ==
    IF pos.isLongYes THEN oracle[pos.marketId] ELSE 100 - oracle[pos.marketId]

\* PnL = (currentPrice - entryPrice) / 100 * collateral * leverage, as a
\* percentage of the collateral: (currentPrice - entryPrice) * leverage
AgentPnlPercent(pos) == (OracleSidePrice(pos) - pos.entryPrice) * pos.leverage

LiquidationPercent == -80

LiquidatesBelowFullLoss(pos) == AgentPnlPercent(pos) < -100

\* The PnL is below -80% of the collateral
check_liquidation(pos) == AgentPnlPercent(pos) < LiquidationPercent

\* The liquidation engine finds a tracked open position below the threshold
\* and calls settlePosition(positionId)
AgentLiquidate(positionId) ==
    /\ positionId \in tracked
    /\ chain[positionId].isOpen
    /\ check_liquidation(chain[positionId])
    /\ chain' = ChainClosed(chain, positionId)
    /\ settlements' = Append(settlements,
            [fn        |-> "settlePosition",
             id        |-> positionId,
             leverage  |-> chain[positionId].leverage,
             entry     |-> chain[positionId].entryPrice,
             price     |-> OracleSidePrice(chain[positionId])])
    /\ UNCHANGED <<agentVars, homeVars, modalVars, asyncVars, ammVars>>

\* The markets the agent asks the oracle about: those of the open
\* leveraged positions
WatchedTitles ==
    {chain[i].marketId : i \in {j \in 1..Len(chain) :
                                  chain[j].isOpen /\ chain[j].leverage > 1}}

\* The oracle feed reports a new YES probability for a watched market
OracleMove(title, price) ==
    /\ title \in WatchedTitles
    /\ oracle[title] # price
    /\ oracle' = [oracle EXCEPT ![title] = price]
    /\ UNCHANGED <<contractVars, agentCursor, bridged, tracked, homeVars,
                   modalVars, asyncVars, ammVars>>

\* Orders that reach the contract from other clients: another trader's, and
\* a spot order of the user's on a listed market
ExternalOrders ==
    { [trader |-> BobChecksum, marketId |-> MARKETS[1].title, isLongYes |-> TRUE,
       entryPrice |-> 50, leverage |-> 2, collateral |-> 10000000],
      [trader |-> AliceChecksum, marketId |-> MARKETS[1].title, isLongYes |-> FALSE,
       entryPrice |-> 50, leverage |-> 1, collateral |-> 10000000] }

ExternalOpen(order) ==
    /\ Len(chain) < MaxPositions
    /\ chain' = ChainOpened(chain, order.trader, order.marketId, order.isLongYes,
                            order.entryPrice, order.leverage, order.collateral)
    /\ UNCHANGED <<settlements, agentVars, homeVars, modalVars, asyncVars, ammVars>>

-----------------------------------------------------------------------------
(* calculateAMMPrices on its own, over a grid of volumes                   *)

\* The grid step of the volumes, 10^-6 USDC
VolumeStep == 50000000
\* The grid's size
MaxVolumeSteps == 10

\* The volumes of the grid, in USDC
GridVolumes == {FormatUnits6(k * VolumeStep) : k \in 0..MaxVolumeSteps}

\* 2^50 and 2^70 USDC
LargeVolume == [s |-> 0, m |-> NShl(<<1>>, 52), e |-> -2]
HugeVolume == [s |-> 0, m |-> NShl(<<1>>, 52), e |-> 18]

Volumes == GridVolumes \cup {LargeVolume, HugeVolume}

InitAMM ==
    /\ InitContract /\ InitAgent /\ InitHome /\ InitModal /\ InitAsync
    /\ ammYes \in Volumes
    /\ ammNo \in Volumes
    /\ ammOut = <<>>
    /\ ammPrev = <<>>
    /\ InitPanelIdle

\* calculateAMMPrices(yesVolume, noVolume) is called
ApplyAMM ==
    /\ ammOut = <<>>
    /\ ammOut' = <<calculateAMMPrices(ammYes, ammNo)>>
    /\ UNCHANGED <<contractVars, agentVars, homeVars, modalVars, asyncVars,
                   ammYes, ammNo, ammPrev, panelText, panelOut>>

\* A position of one grid step of collateral adds to the volume of a side
\* of the grid, after a call
VolumeGrows(isYes) ==
    /\ ammOut # <<>>
    /\ ammPrev = <<>>
    /\ ammYes \in GridVolumes /\ ammNo \in GridVolumes
    /\ ammPrev' = <<[yesVolume |-> ammYes, noVolume |-> ammNo,
                     yesPrice |-> ammOut[1].yesPrice,
                     noPrice |-> ammOut[1].noPrice]>>
    /\ IF isYes
       THEN /\ ammYes' = FAdd(ammYes, FormatUnits6(VolumeStep))
            /\ UNCHANGED ammNo
       ELSE /\ ammNo' = FAdd(ammNo, FormatUnits6(VolumeStep))
            /\ UNCHANGED ammYes
    /\ ammOut' = <<>>
    /\ UNCHANGED <<contractVars, agentVars, homeVars, modalVars, asyncVars,
                   panelText, panelOut>>

NextAMM ==
    \/ ApplyAMM
    \/ \E isYes \in BOOLEAN : VolumeGrows(isYes)

SpecAMM == InitAMM /\ [][NextAMM]_vars

-----------------------------------------------------------------------------
(* The calculations of the trade panel on their own, over the prices of the *)
(* grid of volumes                                                          *)

\* The texts of the amount input: empty, not a number, zero, and amounts
PanelTexts ==
    {<<>>, <<"a", "b", "c">>, <<"0">>, <<"7">>, <<"1", "0">>, TypedAmount}

InitPanel ==
    /\ InitContract /\ InitAgent /\ InitHome /\ InitModal /\ InitAsync
    /\ ammYes \in Volumes
    /\ ammNo \in Volumes
    /\ ammOut = <<calculateAMMPrices(ammYes, ammNo)>>
    /\ ammPrev = <<>>
    /\ panelText \in PanelTexts
    /\ panelOut = <<>>

\* ExpandedMarketView renders the calculations at the market's yesPrice
RenderPanel ==
    /\ panelOut = <<>>
    /\ panelOut' = <<TradePanel(panelText, ammOut[1].yesPrice)>>
    /\ UNCHANGED <<contractVars, agentVars, homeVars, modalVars, asyncVars,
                   ammYes, ammNo, ammOut, ammPrev, panelText>>

NextPanel == RenderPanel

SpecPanel == InitPanel /\ [][NextPanel]_vars

-----------------------------------------------------------------------------
(* The scenarios                                                           *)

Session ==
    \/ Login
    \/ \E address \in WalletAddresses : WalletConnected(address)

Fetching ==
    \/ \E f \in fetches : FetchNextId(f)
    \/ \E f \in fetches : FetchFailed(f)
    \/ \E f \in fetches : FetchGetPosition(f)

Modal ==
    \/ \E id \in 1..MaxMarket : OpenMarket(id)
    \/ CloseMarket

Closing ==
    \/ CloseMined
    \/ CloseReverted

Leverage ==
    \/ ClickSpot
    \/ ClickProLeverage

Form ==
    \/ \E value \in SliderValues : MoveSlider(value)
    \/ \E text \in AmountTexts : TypeAmount(text)

Trading ==
    \/ \E side \in Sides : HandleTrade(side)
    \/ TradeMined
    \/ TradeReverted
    \/ TradeTimer

Portfolio ==
    \/ \E mode \in {"BUY", "SELL"} : SetTradeMode(mode)
    \/ NotificationTimeout
    \/ \E id \in 1..MaxPositions : PanelClose(id)
    \/ \E id \in 1..MaxPositions : SellClose(id)

Agent ==
    \/ AgentHandleEvent
    \/ \E id \in 1..MaxPositions : AgentLiquidate(id)

Oracle == \E title \in Titles, price \in OraclePrices : OracleMove(title, price)

OtherClients == \E order \in ExternalOrders : ExternalOpen(order)

\* The user manages the positions they hold, from the panel and the Sell tab
Next == Session \/ Fetching \/ Modal \/ Portfolio \/ Closing \/ OtherClients

Spec == Init /\ [][Next]_vars

\* The user trades, and closes from the success panel
NextTrade ==
    Session \/ Fetching \/ Modal \/ Leverage \/ Trading \/ SuccessClose \/ Closing

SpecTrade == Init /\ [][NextTrade]_vars

\* The user fills the order form and trades, while the reads of
\* fetchPositions are outstanding
NextForm == Session \/ Modal \/ Leverage \/ Form \/ Trading

SpecForm == Init /\ [][NextForm]_vars

\* The agent runs while the user watches the positions panel
NextAgent ==
    \/ Session \/ Fetching
    \/ \E id \in 1..MaxPositions : PanelClose(id)
    \/ Closing
    \/ Agent \/ Oracle \/ OtherClients

SpecAgent == Init /\ [][NextAgent]_vars

\* The agent's loop keeps running
FairAgent ==
    /\ SpecAgent
    /\ WF_vars(AgentHandleEvent)
    /\ \A id \in 1..MaxPositions : WF_vars(AgentLiquidate(id))

\* Sessions come and go
NextSession == Session \/ SessionEnded \/ Fetching \/ OtherClients

SpecSession == Init /\ [][NextSession]_vars

-----------------------------------------------------------------------------
(* C1: the prices of calculateAMMPrices                                      *)

\* 2^-45: two units in the last place of a double in [64, 128)
TwoUlp100 == [s |-> 0, m |-> NShl(<<1>>, 52), e |-> -97]

PriceSum(out) == FAdd(out.yesPrice, out.noPrice)

FAbs(x) == [x EXCEPT !.s = 0]

\* C1 as stated: the two prices returned by calculateAMMPrices add up to
\* exactly 100, and are 50 and 50 when the two volumes are equal.
C1_SumExactly100 ==
    ammOut # <<>> =>
        /\ PriceSum(ammOut[1]) = F100
        /\ ammYes = ammNo => ammOut[1].yesPrice = FFromInt(50) /\ ammOut[1].noPrice = FFromInt(50)

\* C1 amended: the two prices add up to 100 up to the rounding of double
\* arithmetic (the sum is within 2^-45 of 100), and are exactly 50 and 50
\* when the two volumes are equal.
C1_SumWithinRounding ==
    ammOut # <<>> =>
        /\ FCmp(FAbs(FSub(PriceSum(ammOut[1]), F100)), TwoUlp100) <= 0
        /\ ammYes = ammNo => ammOut[1].yesPrice = FFromInt(50) /\ ammOut[1].noPrice = FFromInt(50)

\* calculateAMMPrices has returned, for unequal volumes, prices that do not
\* add up to 100 in double arithmetic
C1_Witness ==
    /\ ammOut # <<>>
    /\ ammYes # ammNo
    /\ PriceSum(ammOut[1]) # F100

-----------------------------------------------------------------------------
(* C2: the PnL formula                                                      *)

\* (currentPrice - entryPrice) / 100 x collateral x leverage, the collateral
\* in USDC, in double arithmetic
ClaimedPnl(p, currentPrice) ==
    FMul(FMul(FDiv(FSub(currentPrice, FFromInt(p.entryPrice)), F100),
              FormatUnits6(p.collateral)),
         FFromInt(p.leverage))

\* C2: of every position of the list, of every leverage, the pnl that
\* fetchPositions computed is (currentPrice - entryPrice) / 100 x collateral
\* x leverage, and so is the realized PnL of every position closed by
\* handleClosePosition, at the price it realized
C2_PnlByFormula ==
    /\ \A i \in 1..Len(positions) :
          FCmp(positions[i].pnl,
               ClaimedPnl(positions[i], FFromInt(positions[i].currentPrice))) = 0
    /\ lastClose # None =>
          FCmp(lastClose[1].pnl,
               ClaimedPnl(lastClose[1].position,
                          RealizedPrice(lastClose[1].position,
                                        lastClose[1].stats))) = 0

-----------------------------------------------------------------------------
(* C3: liquidation liveness                                                 *)

\* 100 x PnL of position id at the oracle's price, in USDC
OraclePnl100(id) ==
    (OracleSidePrice(chain[id]) - chain[id].entryPrice)
        * (chain[id].collateral \div 1000000) * chain[id].leverage

\* The PnL of position id is below -80% of its collateral
BelowThreshold(id) ==
    OraclePnl100(id) < -80 * (chain[id].collateral \div 1000000)

\* Position id is open, leveraged, and its PnL is below -80%
Breached(id) ==
    /\ id \in 1..Len(chain)
    /\ chain[id].isOpen
    /\ chain[id].leverage > 1
    /\ BelowThreshold(id)

SettledIds == {settlements[i].id : i \in 1..Len(settlements)}

-----------------------------------------------------------------------------
(* C4: liquidation safety                                                   *)

\* The contract calls of the front-end that are in flight
FrontEndCalls ==
    (IF trade.pc = "idle" THEN {} ELSE {trade.fn})
        \cup (IF closing.pc = "idle" THEN {} ELSE {closing.fn})

-----------------------------------------------------------------------------
(* C5: order routing                                                        *)

\* C5: of the positions whose PositionOpened event the agent has handled,
\* those of leverage 1 are bridged and not tracked, those of leverage above
\* 1 are tracked and not bridged
C5_RoutedByLeverage ==
    /\ bridged \cap tracked = {}
    /\ bridged \cup tracked = 1..agentCursor
    /\ \A id \in 1..agentCursor :
          /\ chain[id].leverage = 1 <=> id \in bridged
          /\ chain[id].leverage > 1 <=> id \in tracked

\* The agent has routed a spot position and a leveraged one
C5_Witness ==
    /\ bridged # {}
    /\ tracked # {}
    /\ agentCursor = Len(chain)

-----------------------------------------------------------------------------
(* C6: the leverage passed to openPosition                                  *)

\* C6: the leverage the controls have set, and the leverage of every
\* openPosition call sent, is an integer from 1 to 5
C6_LeverageInRange ==
    /\ leverage \in 1..5
    /\ trade.pc = "sent" =>
          /\ trade.fn = "openPosition"
          /\ trade.leverage \in 1..5

\* openPosition has been sent with the slider at its maximum
C6_Witness ==
    /\ trade.pc = "sent"
    /\ trade.fn = "openPosition"
    /\ trade.leverage = 5

-----------------------------------------------------------------------------
(* C7: a closed position stays off the list                                 *)

\* C7: a position that handleClosePosition has closed on chain is not in
\* positions
C7_ClosedNeverShown ==
    \A i \in 1..Len(positions) :
        ~(/\ ~chain[positions[i].id].isOpen
          /\ positions[i].id \notin SettledIds)

-----------------------------------------------------------------------------
(* C8: the notification of a closed position                                *)

\* The price the realized PnL is taken at: the entry price when the market is
\* unknown, the AMM price of the position's side when the market has
\* statistics, the static chance otherwise
ClaimedClosePrice(position, stats) ==
    IF \A i \in 1..Len(MARKETS) : MARKETS[i].title # position.marketId
    THEN FFromInt(position.entryPrice)
    ELSE IF stats # <<>>
    THEN (IF position.isLongYes THEN stats[1].yesPrice ELSE stats[1].noPrice)
    ELSE LET market == MARKETS[CHOOSE i \in 1..Len(MARKETS) :
                                  MARKETS[i].title = position.marketId]
         IN  FFromInt(IF position.isLongYes THEN market.chance
                      ELSE 100 - market.chance)

\* C8: when handleClosePosition has closed a position, the notification set
\* carries the realized PnL, taken at that price, and is of type success
\* when the PnL is at least 0 and of type error when it is below 0
C8_CloseNotification ==
    [][lastClose' # lastClose =>
          LET closed == lastClose'[1]
              pnl    == closed.pnl
          IN  /\ FCmp(pnl, ClaimedPnl(closed.position,
                          ClaimedClosePrice(closed.position, closed.stats))) = 0
              /\ notification' # <<>>
              /\ notification'[1].cents = ToFixed2([pnl EXCEPT !.s = 0])
              /\ FCmp(pnl, F0) >= 0 <=> notification'[1].type = "success"
              /\ FCmp(pnl, F0) < 0 <=> notification'[1].type = "error"]_vars

\* A position has been closed at a loss and the error notification shows
C8_Witness ==
    /\ lastClose # <<>>
    /\ FCmp(lastClose[1].pnl, F0) < 0
    /\ notification # <<>>
    /\ notification[1].type = "error"
    /\ notification[1].sign = "-$"
    /\ notification[1].cents > 0

-----------------------------------------------------------------------------
(* C9: Close Position on the success panel                                  *)

\* C9: a click on Close Position of the success panel does not return
\* without calling closePosition of the position the trade opened: it sends
\* the call, or the wallet or the provider rejects it
C9_SuccessCloseSubmits ==
    successClick # <<>> =>
        /\ successClick[1].opened = <<successClick[1].positionId>>
        /\ ~successClick[1].returnedEarly

-----------------------------------------------------------------------------
(* C10: the positions shown                                                 *)

\* The positions a Sell tab of the market lists
SellTabShown == SellTab(positions, MarketById(selectedMarket[1]))

\* C10: every position of the list was read open from the contract, and
\* belongs to the wallet of the fetch that produced it up to the case of the
\* address; the Sell tab of the open modal lists the positions of the list
\* whose marketId is the market's title, each once and in the list's order
C10_ShownPositions ==
    /\ \A i \in 1..Len(positions) :
          /\ positions[i].isOpen
          /\ positionsWallet # <<>>
          /\ toLowerCase(positions[i].trader) = toLowerCase(positionsWallet[1])
          /\ positions[i].id \in 1..Len(chain)
          /\ chain[positions[i].id].trader = positions[i].trader
    /\ selectedMarket # <<>> =>
          /\ \A i \in 1..Len(positions) :
                (positions[i].marketId = MarketById(selectedMarket[1]).title)
                    <=> (\E j \in 1..Len(SellTabShown) :
                            SellTabShown[j] = positions[i])
          /\ \A j \in 1..Len(SellTabShown) :
                \E i \in 1..Len(positions) : SellTabShown[j] = positions[i]
          /\ \A j, k \in 1..Len(SellTabShown) :
                j < k => SellTabShown[j].id < SellTabShown[k].id

\* The Sell tab is open for a wallet whose address is in lower case, and
\* lists one of its two positions
C10_Witness ==
    /\ selectedMarket # <<>>
    /\ tradeMode = "SELL"
    /\ positionsWallet = <<AliceLower>>
    /\ Len(positions) = 2
    /\ Len(SellTabShown) = 1
    /\ positions[1].trader # positionsWallet[1]

-----------------------------------------------------------------------------
(* C11: the market statistics                                               *)

\* The collateral, in USDC, of the first n positions of the list that are
\* open, of the market of that title and on that side, added in list order
RECURSIVE ClaimedVolume(_, _, _)
ClaimedVolume(title, isYes, n) ==
    IF n = 0 THEN F0
    ELSE IF /\ positions[n].marketId = title
            /\ positions[n].isOpen
            /\ positions[n].isLongYes = isYes
    THEN FAdd(ClaimedVolume(title, isYes, n - 1),
              FormatUnits6(positions[n].collateral))
    ELSE ClaimedVolume(title, isYes, n - 1)

\* C11: marketStats has an entry for every market of MARKETS, and only for
\* those; its yesVolume and noVolume are the sums of the collateral of the
\* open YES and NO positions of the list in that market, its totalVolume
\* their sum, its prices those of calculateAMMPrices for them; and no
\* position of the list is another trader's than the wallet's
C11_MarketStats ==
    /\ DOMAIN marketStats = {MARKETS[i].id : i \in 1..Len(MARKETS)}
    /\ \A i \in 1..Len(MARKETS) :
          LET entry == marketStats[MARKETS[i].id]
              yes   == ClaimedVolume(MARKETS[i].title, TRUE, Len(positions))
              no    == ClaimedVolume(MARKETS[i].title, FALSE, Len(positions))
              price == calculateAMMPrices(yes, no)
          IN  /\ entry.id = MARKETS[i].id
              /\ entry.yesVolume = yes
              /\ entry.noVolume = no
              /\ entry.totalVolume = FAdd(yes, no)
              /\ entry.yesPrice = price.yesPrice
              /\ entry.noPrice = price.noPrice
    /\ \A i \in 1..Len(positions) :
          /\ positionsWallet # <<>>
          /\ toLowerCase(positions[i].trader) = toLowerCase(positionsWallet[1])

\* Another trader holds an open YES position in the first market; the list
\* was fetched after it was opened, and the market's yesVolume is the
\* collateral of the wallet's own YES position
C11_Witness ==
    /\ Len(chain) = 3
    /\ chain[3].trader = BobChecksum
    /\ chain[3].isOpen
    /\ chain[3].marketId = MARKETS[1].title
    /\ fetches = {}
    /\ refreshPositions = 0 /\ closing.pc = "idle" /\ lastClose = <<>>
    /\ Len(positions) = 2
    /\ marketStats[1].yesVolume = FormatUnits6(positions[1].collateral)
    /\ marketStats[1].yesPrice # FFromInt(50)

-----------------------------------------------------------------------------
(* C12: the calculations of the trade panel                                 *)

\* The amount entered: 10 for an input that is empty, not a number or zero
ClaimedAmount ==
    CASE panelText = <<>> -> 10
      [] panelText = <<"a", "b", "c">> -> 10
      [] panelText = <<"0">> -> 10
      [] panelText = <<"7">> -> 7
      [] panelText = <<"1", "0">> -> 10
      [] panelText = <<"5", "0", "0">> -> 500

\* C12: the panel shows Shares = amount / (price / 100), Max Payout = Shares
\* and Potential Profit = Max Payout - amount, for the amount entered or 10;
\* the potential profit of a positive amount at a price strictly between 0
\* and 100 is not negative
C12_TradePanel ==
    panelOut # <<>> =>
        LET out    == panelOut[1]
            amount == FFromInt(ClaimedAmount)
            price  == ammOut[1].yesPrice
        IN  /\ out.amount = amount
            /\ out.shares = FDiv(amount, FDiv(price, F100))
            /\ out.maxPayout = out.shares
            /\ out.potentialProfit = FSub(out.maxPayout, amount)
            /\ (/\ FCmp(amount, F0) > 0
                /\ FCmp(price, F0) > 0
                /\ FCmp(price, F100) < 0)
                   => FCmp(out.potentialProfit, F0) >= 0

\* The panel has rendered for an input of zero, at a price other than 50,
\* with a profit
C12_Witness ==
    /\ panelOut # <<>>
    /\ panelText = <<"0">>
    /\ panelOut[1].amount = FFromInt(10)
    /\ ammYes # ammNo
    /\ FCmp(ammOut[1].yesPrice, F0) > 0
    /\ FCmp(ammOut[1].yesPrice, F100) < 0
    /\ FCmp(panelOut[1].potentialProfit, F0) > 0

-----------------------------------------------------------------------------
(* C13: the range of the prices                                             *)

\* Both prices returned lie strictly between 0 and 100
StrictlyInside(out) ==
    /\ FCmp(out.yesPrice, F0) > 0 /\ FCmp(out.yesPrice, F100) < 0
    /\ FCmp(out.noPrice, F0) > 0 /\ FCmp(out.noPrice, F100) < 0

\* C13 as stated: for all volumes, both prices returned by
\* calculateAMMPrices lie strictly between 0 and 100
C13_StrictlyInsideAlways == ammOut # <<>> => StrictlyInside(ammOut[1])

\* C13 amended: for volumes of at most 2^50 USDC each, both prices returned
\* by calculateAMMPrices lie strictly between 0 and 100
C13_StrictlyInsideBelowLarge ==
    (/\ ammOut # <<>>
     /\ FCmp(ammYes, LargeVolume) <= 0
     /\ FCmp(ammNo, LargeVolume) <= 0)
        => StrictlyInside(ammOut[1])

\* calculateAMMPrices has returned for a YES volume of 2^50 USDC against
\* none, and the NO price is near 100 and below it
C13_Witness ==
    /\ ammOut # <<>>
    /\ ammYes = LargeVolume
    /\ ammNo = F0
    /\ FCmp(ammOut[1].noPrice, FFromInt(99)) > 0
    /\ FCmp(ammOut[1].noPrice, F100) < 0
    /\ FCmp(ammOut[1].yesPrice, F0) > 0

-----------------------------------------------------------------------------
(* C14: the pricing formula and its monotonicity                            *)

\* 2^-44: four units in the last place of a double in [64, 128)
FourUlp100 == [s |-> 0, m |-> NShl(<<1>>, 52), e |-> -96]

\* 100 x own / (1000 + yesVolume + noVolume)
ClaimedPrice(own) ==
    FDiv(FMul(F100, own), FAdd(FAdd(FFromInt(1000), ammYes), ammNo))

Near(x, y) == FCmp(FAbs(FSub(x, y)), FourUlp100) <= 0

-----------------------------------------------------------------------------
(* C15: unrealized against realized PnL                                     *)

\* C15: the realized PnL that handleClosePosition reports for a position is
\* the unrealized PnL that the list showed for it when Close was clicked
C15_RealizedIsUnrealized ==
    lastClose # <<>> =>
        FCmp(lastClose[1].pnl, lastClose[1].position.pnl) = 0

=============================================================================
